---------------------------- MODULE Spec2Model ----------------------------
(***************************************************************************)
(* ConturLikelihood (src/contur_likelihood.py): construction, config,      *)
(* the mean response lam, the inequality constraint, the log-likelihood    *)
(* and objective closures, the sampler and expected_data.                  *)
(*                                                                         *)
(* Numbers.  Yields, parameters and standard deviations are integers; the  *)
(* variances on the covariance diagonals are perfect squares, so np.sqrt   *)
(* is exact.  The one quotient of the program, background / signal in      *)
(* config, is an exact rational <<numerator, denominator>> in lowest terms.*)
(* An absent value (None) is the empty tuple << >>.                        *)
(*                                                                         *)
(* Arrays.  A 1-D array is a sequence.  A covariance argument is           *)
(* [ndim, shape, diag]: the code reads only .ndim, .shape and .diagonal(). *)
(*                                                                         *)
(* Outcomes.  Every evaluation yields [exc, val]: exc = "" and the value,  *)
(* or the name of the exception raised and val = << >>.                    *)
(***************************************************************************)
EXTENDS Integers, Sequences, FiniteSets, TLC

VARIABLES self, op, args, ret

vars == <<self, op, args, ret>>

\* ------------------------------------------------------------------ bounds
MaxBins == 2
MaxSamples == 2

\* ------------------------------------------------------------ input values
\* Entries of the argument vectors and variances; every set is finite and the
\* vectors are generated by index, so they exist for every bin count.
SignalVals == {0, 1, 2}
PoiVals == {-1, 2}
UpperBounds == {5, 10}

None == << >>

Ok(v) == [exc |-> "", val |-> v]
Raise(e) == [exc |-> e, val |-> << >>]

Min2(a, b) == IF a <= b THEN a ELSE b

BackgroundVecs(n) ==
    { [i \in 1..n |-> IF i % 2 = 1 THEN 1 ELSE 3],
      [i \in 1..n |-> 3] }

DataVecs(n) ==
    { [i \in 1..n |-> 4 + (i % 3)],
      [i \in 1..n |-> 2 + 4 * (i % 2)] }

\* Variances: perfect squares, different for the three sources in every bin.
Variance(kind, i) ==
    CASE kind = "signal"     -> i * i
      [] kind = "background" -> (i + 1) * (i + 1)
      [] kind = "data"       -> (i + 2) * (i + 2)

Matrix(r, c, kind) ==
    [ndim |-> 2, shape |-> <<r, c>>,
     diag |-> [i \in 1..Min2(r, c) |-> Variance(kind, i)]]

Array1D(n) == [ndim |-> 1, shape |-> <<n>>, diag |-> << >>]

\* Covariance arguments offered for a model of n bins: the right size, one
\* too large, 1 x 1, not square, and not 2-dimensional.
SquareCovs(n, kind) == { Matrix(m, m, kind) : m \in {1, n, n + 1} }

CovInputs(n, kind) ==
    SquareCovs(n, kind) \cup {Matrix(n, n + 1, kind), Array1D(n)}

\* ---------------------------------------------------------- numpy on 1-D
\* The elementwise operations used: +, * and, for the shape of a
\* log-density's value against its parameter, the value itself.
Apply(f, a, b) ==
    CASE f = "add"      -> a + b
      [] f = "multiply" -> a * b
      [] f = "value"    -> a

\* Elementwise binary operation with numpy's broadcasting of 1-D shapes:
\* equal lengths, or one operand of length 1 stretched to the other's length;
\* any other pair of shapes raises ValueError.  An operand that is already an
\* exception propagates.
Broadcast(f, x, y) ==
    IF x.exc # "" THEN x
    ELSE IF y.exc # "" THEN y
    ELSE LET a == x.val
             b == y.val
         IN  IF Len(a) = Len(b)
               THEN Ok([i \in 1..Len(a) |-> Apply(f, a[i], b[i])])
             ELSE IF Len(a) = 1
               THEN Ok([i \in 1..Len(b) |-> Apply(f, a[1], b[i])])
             ELSE IF Len(b) = 1
               THEN Ok([i \in 1..Len(a) |-> Apply(f, a[i], b[1])])
             ELSE Raise("ValueError")


\* np.array_split(ary, 3): three consecutive sections of a 1-D array, the
\* first Len % 3 of them one entry longer.
array_split3(ary) ==
    LET L == Len(ary)
        q == L \div 3
        r == L % 3
        size(k) == IF k <= r THEN q + 1 ELSE q
        start(k) == IF k = 1 THEN 0
                    ELSE IF k = 2 THEN size(1)
                    ELSE size(1) + size(2)
    IN  [k \in 1..3 |-> [i \in 1..size(k) |-> ary[start(k) + i]]]

\* np.sqrt on the variances of the model (perfect squares).
Sqrt(x) == CHOOSE r \in 0..x : r * r = x

\* ------------------------------------------------------------- __init__
\* The module neither defines nor imports the name InvalidInput, so each
\* `raise InvalidInput(...)` raises NameError when it is evaluated.
InvalidInput == "NameError"

\* The three validation blocks, in the order of the code; "" when all pass.
InitCheck(signal_yields, background_yields, data, signal_covariance, background_covariance, data_covariance) ==
    LET covs == <<data_covariance, signal_covariance, background_covariance>>
        bad(cov) == cov.ndim # 2 \/ cov.shape[1] # cov.shape[2]
    IN  IF Cardinality({Len(signal_yields), Len(background_yields), Len(data)}) # 1
          THEN InvalidInput
        ELSE IF \E k \in 1..3 : bad(covs[k])
          THEN InvalidInput
        ELSE IF Len(data) # data_covariance.shape[1]
          THEN InvalidInput
        ELSE ""

NewModel(signal_yields, background_yields, data, signal_covariance, background_covariance, data_covariance) ==
    [signal_yields |-> signal_yields,
     background_yields |-> background_yields,
     data |-> data,
     signal_covariance |-> signal_covariance,
     background_covariance |-> background_covariance,
     data_covariance |-> data_covariance,
     nbins |-> Len(data),
     constraints |-> <<[fun |-> "constraint", lb |-> 0, ub |-> "inf",
                        jac |-> "jacobian(constraint)"]>>,
     main_model |-> [loc |-> "lam"],
     constraint_model |->
        <<[distribution_type |-> "normal",
           loc |-> [i \in 1..Len(data) |-> 0],
           scale |-> [i \in 1..Len(data) |-> 1],
           domain_start |-> 1]>>]

Constructed == DOMAIN self # {}

\* Arguments of the constructor calls: vectors of one common length n with
\* every combination of signal yields, and square covariances of which at
\* most one of signal and background has a size other than n; and vectors of
\* independent lengths with every shape of covariance argument.
CovSizePairs(n) ==
    { <<n, n>>, <<n + 1, n>>, <<n, n + 1>>, <<1, n>>, <<n, 1>> }

ConstructInputs ==
    UNION { { <<s, b, d, Matrix(sz[1], sz[1], "signal"),
                Matrix(sz[2], sz[2], "background"), Matrix(n, n, "data")>> :
                s \in [1..n -> SignalVals],
                b \in BackgroundVecs(n),
                d \in DataVecs(n),
                sz \in CovSizePairs(n) } : n \in 1..MaxBins }
    \cup
    UNION { { <<[i \in 1..ls |-> 1], [i \in 1..lb |-> 3], [i \in 1..ld |-> 5],
                sc, bc, dc>> :
                sc \in CovInputs(ld, "signal"),
                bc \in CovInputs(ld, "background"),
                dc \in CovInputs(ld, "data") } :
            ls \in 1..MaxBins, lb \in 1..MaxBins, ld \in 1..MaxBins }

Construct(signal_yields, background_yields, data, signal_covariance, background_covariance, data_covariance) ==
    LET e == InitCheck(signal_yields, background_yields, data,
                       signal_covariance, background_covariance, data_covariance)
    IN  /\ op = "new"
        /\ op' = "__init__"
        /\ args' = [signal_yields |-> signal_yields,
                    background_yields |-> background_yields,
                    data |-> data,
                    signal_covariance |-> signal_covariance,
                    background_covariance |-> background_covariance,
                    data_covariance |-> data_covariance]
        /\ IF e # ""
             THEN /\ ret' = Raise(e)
                  /\ UNCHANGED self
             ELSE /\ ret' = Ok(None)
                  /\ self' = NewModel(signal_yields, background_yields, data,
                                      signal_covariance, background_covariance,
                                      data_covariance)

\* ------------------------------------------------------------- is_alive
is_alive(m) == \E i \in 1..Len(m.signal_yields) : m.signal_yields[i] > 0

\* --------------------------------------------------------------- config
RECURSIVE Gcd(_, _)
Gcd(a, b) == IF b = 0 THEN a ELSE Gcd(b, a % b)

Abs(x) == IF x < 0 THEN -x ELSE x

\* The quotient n / d (d > 0) as a rational in lowest terms.
Quot(n, d) == LET g == Gcd(Abs(n), d) IN <<n \div g, d \div g>>

RatLeq(p, q) == p[1] * q[2] <= q[1] * p[2]

\* np.min over an array of quotients; ValueError on a zero-size array.
np_min(qs) ==
    IF qs = {} THEN Raise("ValueError")
    ELSE Ok(CHOOSE q \in qs : \A r \in qs : RatLeq(q, r))

\* Mutant of config: the minimum quotient reported without its sign change.
config_unsigned_minimum(m, allow_negative_signal, poi_upper_bound) ==
    LET sel == { i \in 1..Len(m.signal_yields) : m.signal_yields[i] > 0 }
        lowest == np_min({ Quot(m.background_yields[i], m.signal_yields[i]) :
                           i \in sel })
        min_poi == lowest.val
    IN  IF lowest.exc # "" THEN lowest
        ELSE Ok([poi_index |-> 0,
                 minimum_poi |-> min_poi,
                 suggested_init |-> [i \in 1..(Len(m.data) + 1) |-> 1],
                 suggested_bounds |->
                    <<<<IF allow_negative_signal THEN min_poi ELSE <<0, 1>>,
                        <<poi_upper_bound, 1>>>>>>
                    \o [i \in 1..Len(m.data) |-> <<None, None>>]])

\* Mutant of config: min_poi derived only when a negative signal is allowed,
\* with 0 in its place otherwise.
config_lazy_minimum(m, allow_negative_signal, poi_upper_bound) ==
    LET sel == { i \in 1..Len(m.signal_yields) : m.signal_yields[i] > 0 }
        lowest == IF allow_negative_signal
                    THEN np_min({ Quot(m.background_yields[i], m.signal_yields[i]) :
                                  i \in sel })
                    ELSE Ok(<<0, 1>>)
        min_poi == <<-lowest.val[1], lowest.val[2]>>
    IN  IF lowest.exc # "" THEN lowest
        ELSE Ok([poi_index |-> 0,
                 minimum_poi |-> min_poi,
                 suggested_init |-> [i \in 1..(Len(m.data) + 1) |-> 1],
                 suggested_bounds |->
                    <<<<IF allow_negative_signal THEN min_poi ELSE <<0, 1>>,
                        <<poi_upper_bound, 1>>>>>>
                    \o [i \in 1..Len(m.data) |-> <<None, None>>]])

config(m, allow_negative_signal, poi_upper_bound) ==
    LET sel == { i \in 1..Len(m.signal_yields) : m.signal_yields[i] > 0 }
        lowest == np_min({ Quot(m.background_yields[i], m.signal_yields[i]) :
                           i \in sel })
        min_poi == <<-lowest.val[1], lowest.val[2]>>
    IN  IF lowest.exc # "" THEN lowest
        ELSE Ok([poi_index |-> 0,
                 minimum_poi |-> min_poi,
                 suggested_init |-> [i \in 1..(Len(m.data) + 1) |-> 1],
                 suggested_bounds |->
                    <<<<IF allow_negative_signal THEN min_poi ELSE <<0, 1>>,
                        <<poi_upper_bound, 1>>>>>>
                    \o [i \in 1..Len(m.data) |-> <<None, None>>]])

\* ------------------------------------------------------------------ lam
lam(m, pars) ==
    LET poisson_counts ==
            [i \in 1..Len(m.signal_yields) |->
                pars[1] * m.signal_yields[i] + m.background_yields[i]]
        split == array_split3(Tail(pars))
        signal_pars == split[1]
        background_pars == split[2]
        data_pars == split[3]
        uncertainties(cov) == [i \in 1..Len(cov.diag) |-> Sqrt(cov.diag[i])]
        signal_uncertainties == uncertainties(m.signal_covariance)
        background_uncertainties == uncertainties(m.background_covariance)
        data_uncertainties == uncertainties(m.data_covariance)
    IN  Broadcast("add",
          Broadcast("add",
            Broadcast("add",
              Ok(poisson_counts),
              Broadcast("multiply", Ok(signal_pars), Ok(signal_uncertainties))),
            Broadcast("multiply", Ok(background_pars), Ok(background_uncertainties))),
          Broadcast("multiply", Ok(data_pars), Ok(data_uncertainties)))

\* ----------------------------------------------------------- constraint
\* No scope of the module binds the name absolute_uncertainties.
absolute_uncertainties == Raise("NameError")

constraint(m, pars) ==
    Broadcast("multiply",
      Ok(m.background_yields),
      Broadcast("add", Ok(<<1>>),
        Broadcast("multiply", Ok(Tail(pars)), absolute_uncertainties)))

\* ------------------------------------------- MainModel / ConstraintModel
\* A log-probability is kept exact as a formal sum: a sequence of terms
\* [coef, dist, loc, at], each standing for coef times the summed log-density
\* of dist with parameter loc evaluated at the array `at`.
FAdd(x, y) ==
    IF x.exc # "" THEN x ELSE IF y.exc # "" THEN y ELSE Ok(x.val \o y.val)

FNeg(x) ==
    IF x.exc # "" THEN x
    ELSE Ok([i \in 1..Len(x.val) |-> [x.val[i] EXCEPT !.coef = -@]])

FSub(x, y) == FAdd(x, FNeg(y))

\* MainModel(lam): independent Poisson counts with mean lam(pars).
MainModel_expected_data(m, pars) == lam(m, pars)

MainModel_log_prob(m, pars, observations) ==
    LET mean == lam(m, pars)
        shaped == Broadcast("value", Ok(observations), mean)
    IN  IF shaped.exc # "" THEN shaped
        ELSE Ok(<<[coef |-> 1, dist |-> "poisson",
                   loc |-> mean.val, at |-> observations]>>)

MainModel_sample(m, pars, sample_size) ==
    LET mean == lam(m, pars)
    IN  IF mean.exc # "" THEN mean
        ELSE Ok([r \in 1..sample_size |->
                   [c \in 1..Len(mean.val) |->
                      [draw |-> "poisson", loc |-> mean.val[c]]]])

\* ConstraintModel: the normal prior built in __init__, applied to the
\* parameters from its domain start on.
ConstraintModel_expected_data(m) == m.constraint_model[1].loc

ConstraintModel_log_prob(m, pars) ==
    LET pdf == m.constraint_model[1]
        theta == [i \in 1..(Len(pars) - pdf.domain_start) |->
                    pars[pdf.domain_start + i]]
        shaped == Broadcast("value", Ok(theta), Ok(pdf.loc))
    IN  IF shaped.exc # "" THEN shaped
        ELSE Ok(<<[coef |-> 1, dist |-> "normal",
                   loc |-> pdf.loc, at |-> theta]>>)

ConstraintModel_sample(m, pars, sample_size) ==
    LET pdf == m.constraint_model[1]
    IN  Ok([r \in 1..sample_size |->
              [c \in 1..Len(pdf.loc) |->
                 [draw |-> "normal", loc |-> pdf.loc[c]]]])

\* ---------------------------------- get_objective_function / get_logpdf
ExpectationType == {"observed", "aposteriori", "apriori"}

\* seq[:n]
SliceTo(seq, n) == [i \in 1..Min2(Len(seq), n) |-> seq[i]]

\* Mutant of get_logpdf_func: the stored observation in every mode.
get_logpdf_func_ignores_mode(m, expected, data) ==
    [fn |-> "logpdf",
     data |-> IF data = None THEN m.data ELSE data]

\* The closure returned by get_logpdf_func: the data it captured.
get_logpdf_func(m, expected, data) ==
    LET current_data == IF expected = "apriori"
                          THEN m.background_yields ELSE m.data
    IN  [fn |-> "logpdf",
         data |-> IF data = None THEN current_data ELSE data]

logpdf(m, closure, pars) ==
    FAdd(MainModel_log_prob(m, pars, SliceTo(closure.data, Len(m.data))),
         ConstraintModel_log_prob(m, pars))

get_objective_function(m, expected, data, do_grad) ==
    LET current_data == IF expected = "apriori"
                          THEN m.background_yields ELSE m.data
    IN  [fn |-> "objective",
         data |-> IF data = None THEN current_data ELSE data,
         do_grad |-> do_grad]

\* Mutant of negative_loglikelihood: twice the negative log-likelihood.
negative_loglikelihood_twice(m, closure, pars) ==
    LET value ==
          FSub(FNeg(MainModel_log_prob(m, pars,
                                       SliceTo(closure.data, Len(m.data)))),
               ConstraintModel_log_prob(m, pars))
    IN  IF value.exc # "" THEN value
        ELSE Ok([i \in 1..Len(value.val) |->
                   [value.val[i] EXCEPT !.coef = 2 * @]])

negative_loglikelihood(m, closure, pars) ==
    FSub(FNeg(MainModel_log_prob(m, pars, SliceTo(closure.data, Len(m.data)))),
         ConstraintModel_log_prob(m, pars))

\* The gradient is not computed here: it is named by the function autograd
\* differentiates and the point.
objective(m, closure, pars) ==
    LET value == negative_loglikelihood(m, closure, pars)
    IN  IF value.exc # "" THEN value
        ELSE IF closure.do_grad
          THEN Ok(<<value.val,
                    [grad_of |-> "negative_loglikelihood", at |-> pars]>>)
        ELSE Ok(value.val)

\* ------------------------------------------ get_sampler / expected_data
hstack_rows(x, y) ==
    IF x.exc # "" THEN x ELSE IF y.exc # "" THEN y
    ELSE Ok([r \in 1..Len(x.val) |-> x.val[r] \o y.val[r]])

sampler(m, pars, sample_size, include_auxiliary) ==
    LET sample == MainModel_sample(m, pars, sample_size)
    IN  IF include_auxiliary
          THEN hstack_rows(sample,
                           ConstraintModel_sample(m, Tail(pars), sample_size))
          ELSE sample

expected_data(m, pars, include_auxiliary) ==
    LET data == MainModel_expected_data(m, pars)
    IN  IF include_auxiliary
          THEN IF data.exc # "" THEN data
               ELSE Ok(data.val \o ConstraintModel_expected_data(m))
          ELSE data

\* ----------------------------------------------------- parameter inputs
\* Parameter vectors of length 3n+1: a POI value followed by nuisances that
\* are all 0, all 1, or 0 but for one entry; and the vector config suggests.
ParsInputs(n) ==
    { <<mu>> \o [i \in 1..(3 * n) |-> v] : mu \in PoiVals, v \in {0, 1} }
    \cup { <<2>> \o [i \in 1..(3 * n) |-> IF i = j THEN 2 ELSE 0] :
             j \in 1..(3 * n) }
    \cup { [i \in 1..(n + 1) |-> 1] }

FewPars(n) ==
    { <<2>> \o [i \in 1..(3 * n) |-> 0],
      [i \in 1..(3 * n + 1) |-> 1],
      [i \in 1..(n + 1) |-> 1] }

\* Data arguments: none, one value per bin, and a row with auxiliary data.
DataInputs(n) ==
    { None, [i \in 1..n |-> 7 + (i % 3)], [i \in 1..(2 * n) |-> 7 + (i % 3)] }

\* -------------------------------------------------------------- actions
Init ==
    /\ self = << >>
    /\ op = "new"
    /\ args = << >>
    /\ ret = Ok(None)

New == \E in \in ConstructInputs :
          Construct(in[1], in[2], in[3], in[4], in[5], in[6])

Idle == Constructed /\ op = "idle"

Return ==
    /\ Constructed
    /\ op # "idle"
    /\ op' = "idle"
    /\ args' = << >>
    /\ ret' = Ok(None)
    /\ UNCHANGED self

IsAlive ==
    /\ Idle
    /\ op' = "is_alive"
    /\ args' = << >>
    /\ ret' = Ok(is_alive(self))
    /\ UNCHANGED self

Config ==
    /\ Idle
    /\ \E allow \in BOOLEAN, upper \in UpperBounds :
         /\ args' = [allow_negative_signal |-> allow, poi_upper_bound |-> upper]
         /\ ret' = config(self, allow, upper)
    /\ op' = "config"
    /\ UNCHANGED self

ExpectedData ==
    /\ Idle
    /\ \E pars \in ParsInputs(self.nbins), aux \in BOOLEAN :
         /\ args' = [pars |-> pars, include_auxiliary |-> aux]
         /\ ret' = expected_data(self, pars, aux)
    /\ op' = "expected_data"
    /\ UNCHANGED self

Constraint ==
    /\ Idle
    /\ \E pars \in FewPars(self.nbins) :
         /\ args' = [pars |-> pars]
         /\ ret' = constraint(self, pars)
    /\ op' = "constraint"
    /\ UNCHANGED self

GetLogpdfFunc ==
    /\ Idle
    /\ \E expected \in ExpectationType, data \in DataInputs(self.nbins) :
         /\ args' = [expected |-> expected, data |-> data]
         /\ ret' = Ok(get_logpdf_func(self, expected, data))
    /\ op' = "get_logpdf_func"
    /\ UNCHANGED self

CallLogpdf ==
    /\ op = "get_logpdf_func"
    /\ \E pars \in FewPars(self.nbins) :
         /\ args' = [expected |-> args.expected, data |-> args.data,
                     closure |-> ret.val, pars |-> pars]
         /\ ret' = logpdf(self, ret.val, pars)
    /\ op' = "logpdf"
    /\ UNCHANGED self

GetObjectiveFunction ==
    /\ Idle
    /\ \E expected \in ExpectationType, data \in DataInputs(self.nbins),
          do_grad \in BOOLEAN :
         /\ args' = [expected |-> expected, data |-> data, do_grad |-> do_grad]
         /\ ret' = Ok(get_objective_function(self, expected, data, do_grad))
    /\ op' = "get_objective_function"
    /\ UNCHANGED self

CallObjective ==
    /\ op = "get_objective_function"
    /\ \E pars \in FewPars(self.nbins) :
         /\ args' = [expected |-> args.expected, data |-> args.data,
                     do_grad |-> args.do_grad,
                     closure |-> ret.val, pars |-> pars]
         /\ ret' = objective(self, ret.val, pars)
    /\ op' = "objective"
    /\ UNCHANGED self

GetSampler ==
    /\ Idle
    /\ \E pars \in FewPars(self.nbins) :
         /\ args' = [pars |-> pars]
         /\ ret' = Ok([fn |-> "sampler", pars |-> pars])
    /\ op' = "get_sampler"
    /\ UNCHANGED self

CallSampler ==
    /\ op = "get_sampler"
    /\ \E k \in 1..MaxSamples, aux \in BOOLEAN :
         /\ args' = [pars |-> ret.val.pars, sample_size |-> k,
                     include_auxiliary |-> aux]
         /\ ret' = sampler(self, ret.val.pars, k, aux)
    /\ op' = "sampler"
    /\ UNCHANGED self

Next ==
    \/ New
    \/ Return
    \/ IsAlive
    \/ Config
    \/ ExpectedData
    \/ Constraint
    \/ GetLogpdfFunc
    \/ CallLogpdf
    \/ GetObjectiveFunction
    \/ CallObjective
    \/ GetSampler
    \/ CallSampler

Spec == Init /\ [][Next]_vars

\* =============================================================== claims
NBins == Len(self.data)

Alive == \E i \in 1..NBins : self.signal_yields[i] > 0

\* ------------------------------------------------------------------- C1
ArgsInvalid ==
    \/ ~(Len(args.signal_yields) = Len(args.data)
         /\ Len(args.background_yields) = Len(args.data))
    \/ \E cov \in {args.signal_covariance, args.background_covariance,
                   args.data_covariance} :
          cov.ndim # 2 \/ cov.shape[1] # cov.shape[2]
    \/ args.data_covariance.shape[1] # Len(args.data)

\* C1: a constructor call whose three vectors do not share one length, or
\* one of whose covariances is not 2-dimensional or not square, or whose data
\* covariance has a size other than N = len(data), fails with the invalid
\* input error (InvalidInput in the code, InvalidInputError in the
\* specification) and assigns no field of the model.
C1_InvalidInputError ==
    (op = "__init__" /\ ArgsInvalid) =>
        /\ ret.exc \in {"InvalidInput", "InvalidInputError"}
        /\ ~Constructed

\* ------------------------------------------------------------------- C2
\* C2: every constructed model has signal, background and data covariances
\* that are square with N rows, and a constructor call with a covariance of
\* any other size yields no model.
C2_CovariancesAreNbyN ==
    /\ Constructed =>
         \A cov \in {self.signal_covariance, self.background_covariance,
                     self.data_covariance} :
            cov.ndim = 2 /\ cov.shape = <<NBins, NBins>>
    /\ (op = "__init__"
        /\ \E cov \in {args.signal_covariance, args.background_covariance,
                       args.data_covariance} :
              cov.shape # <<Len(args.data), Len(args.data)>>)
         => ~Constructed

\* ------------------------------------------------------------------- C3
\* C3: config returns poi_index 0, 3N+1 initial values all equal to 1, and
\* 3N+1 bounds: the POI bound (min_poi or 0, poi_upper_bound) followed by
\* 3N unbounded nuisance entries.
C3_ConfigHas3NPlus1Entries ==
    (op = "config" /\ ret.exc = "") =>
        /\ ret.val.poi_index = 0
        /\ Len(ret.val.suggested_init) = 3 * NBins + 1
        /\ \A i \in 1..Len(ret.val.suggested_init) : ret.val.suggested_init[i] = 1
        /\ Len(ret.val.suggested_bounds) = 3 * NBins + 1
        /\ ret.val.suggested_bounds[1] =
             <<IF args.allow_negative_signal THEN ret.val.minimum_poi ELSE <<0, 1>>,
               <<args.poi_upper_bound, 1>>>>
        /\ \A i \in 2..Len(ret.val.suggested_bounds) :
              ret.val.suggested_bounds[i] = <<None, None>>

\* ------------------------------------------------------------------- C4
Sigma(cov, i) == Sqrt(cov.diag[i])

\* C4: for a parameter vector of length 3N+1, expected_data without
\* auxiliary data returns, for each bin i,
\* pars[0]*signal_i + background_i + theta_s_i*sqrt(signal_covariance_ii)
\* + theta_b_i*sqrt(background_covariance_ii) + theta_d_i*sqrt(data_covariance_ii),
\* the nuisance blocks in the order signal, background, data.
C4_MeanResponse ==
    (op = "expected_data" /\ ~args.include_auxiliary
     /\ Len(args.pars) = 3 * NBins + 1) =>
        /\ ret.exc = ""
        /\ Len(ret.val) = NBins
        /\ \A i \in 1..NBins :
              /\ i \in DOMAIN self.signal_covariance.diag
              /\ i \in DOMAIN self.background_covariance.diag
              /\ i \in DOMAIN self.data_covariance.diag
              /\ ret.val[i] =
                    args.pars[1] * self.signal_yields[i]
                    + self.background_yields[i]
                    + args.pars[1 + i] * Sigma(self.signal_covariance, i)
                    + args.pars[1 + NBins + i] * Sigma(self.background_covariance, i)
                    + args.pars[1 + 2 * NBins + i] * Sigma(self.data_covariance, i)

\* The same statement on the models whose three covariances are all N x N:
\* there it holds, so C4 fails only on the models C2's missing size check lets
\* through.
C4_MeanResponseOnSizedModels ==
    (Constructed
     /\ self.signal_covariance.shape = <<NBins, NBins>>
     /\ self.background_covariance.shape = <<NBins, NBins>>)
        => C4_MeanResponse

\* ------------------------------------------------------------------- C5
IsGetter == op \in {"get_logpdf_func", "get_objective_function"}

IsEvaluation == op \in {"logpdf", "objective"}

\* The formal sum an evaluation returned (the first component with do_grad).
Returned ==
    IF op = "objective" /\ args.do_grad THEN ret.val[1] ELSE ret.val

\* C5 as stated: in apriori mode the dataset is the background yields on every
\* call; in observed and aposteriori mode it is the caller's data if given
\* and the stored observation otherwise.
C5_AprioriAlwaysBackground ==
    IsGetter =>
        ret.val.data =
            IF args.expected = "apriori" THEN self.background_yields
            ELSE IF args.data # None THEN args.data
            ELSE self.data

Chosen ==
    IF args.data # None THEN args.data
    ELSE IF args.expected = "apriori" THEN self.background_yields
    ELSE self.data

\* C5 amended: in every mode the dataset is the caller's data if given; with
\* no data given it is the background yields in apriori mode and the stored
\* observation in observed and aposteriori mode; the likelihood is evaluated
\* at its first N entries.
C5_DatasetSelection ==
    /\ IsGetter => ret.val.data = Chosen
    /\ (IsEvaluation /\ ret.exc = "") =>
          Returned[1].at = SliceTo(Chosen, NBins)

C5_Witness ==
    /\ op = "logpdf"
    /\ ret.exc = ""
    /\ args.expected = "apriori"
    /\ args.data # None
    /\ Len(args.data) > NBins
    /\ Returned[1].at # self.background_yields

C7_ShapesWithAuxiliary ==
    /\ (op = "sampler" /\ Len(args.pars) = 3 * NBins + 1) =>
          /\ ret.exc = ""
          /\ Len(ret.val) = args.sample_size
          /\ \A r \in 1..Len(ret.val) :
                Len(ret.val[r]) =
                    IF args.include_auxiliary THEN NBins + 3 * NBins ELSE NBins
    /\ (op = "expected_data" /\ Len(args.pars) = 3 * NBins + 1) =>
          /\ ret.exc = ""
          /\ Len(ret.val) =
                IF args.include_auxiliary THEN NBins + 3 * NBins ELSE NBins
          /\ \A i \in (NBins + 1)..Len(ret.val) : ret.val[i] = 0

\* ------------------------------------------------------------------- C8
\* Values of mu the threshold is tried on: p / q.
MuGrid == { <<p, q>> : p \in -13..13, q \in 1..4 }

NonNegativeAt(mu) ==
    \A i \in 1..NBins :
        self.signal_yields[i] > 0 =>
            mu[1] * self.signal_yields[i] + mu[2] * self.background_yields[i] >= 0

\* C8: with a strictly positive signal yield, the POI lower bound config
\* reports is -min(background_i / signal_i) over exactly the bins with
\* signal_i > 0; mu*signal_i + background_i >= 0 holds in all those bins
\* exactly for mu >= min_poi; and min_poi < 0 when all yields are positive.
C8_MinPoi ==
    (op = "config" /\ Alive) =>
        /\ ret.exc = ""
        /\ LET m == ret.val.minimum_poi
           IN  /\ m[2] > 0
               /\ \E i \in 1..NBins :
                     /\ self.signal_yields[i] > 0
                     /\ m[1] * self.signal_yields[i]
                           = -self.background_yields[i] * m[2]
               /\ \A i \in 1..NBins :
                     self.signal_yields[i] > 0 =>
                        -m[1] * self.signal_yields[i]
                           <= self.background_yields[i] * m[2]
               /\ \A mu \in MuGrid : RatLeq(m, mu) <=> NonNegativeAt(mu)
               /\ (\A i \in 1..NBins :
                      self.signal_yields[i] > 0 /\ self.background_yields[i] > 0)
                     => m[1] < 0

C8_Witness ==
    /\ op = "config"
    /\ ret.exc = ""
    /\ NBins = 2
    /\ self.signal_yields = <<0, 2>>
    /\ self.background_yields = <<1, 3>>
    /\ ret.val.minimum_poi = <<-3, 2>>

\* ------------------------------------------------------------------- C9
\* C9: the model holds one inequality constraint with bounds 0 and +infinity
\* whose function, on a parameter vector of length 3N+1, returns without
\* error an N-vector (background_i * (1 + theta_b_i * relative_uncertainty_i)).
C9_ConstraintEvaluates ==
    /\ Constructed =>
          /\ Len(self.constraints) = 1
          /\ self.constraints[1].lb = 0
          /\ self.constraints[1].ub = "inf"
    /\ (op = "constraint" /\ Len(args.pars) = 3 * NBins + 1) =>
          /\ ret.exc = ""
          /\ Len(ret.val) = NBins

=============================================================================
